---- MODULE Spec2Model ----
(***************************************************************************)
(* DieCare backend: transactional task creation with notification fan-out  *)
(* (src/routes/tasks.js), the role-scoped notification ledger              *)
(* (src/routes/notifications.js) and the realtime role channels            *)
(* (src/server.js).                                                        *)
(*                                                                         *)
(* The relational store follows PostgreSQL READ COMMITTED: rows written by *)
(* a transaction are staged in the transaction and become visible to other *)
(* connections only when COMMIT succeeds.  A statement that is reported as *)
(* failed has no effect and leaves its transaction aborted.  Sequences     *)
(* (serial ids) are not transactional.                                     *)
(*                                                                         *)
(* One action models one await segment of a handler: the awaited statement *)
(* as executed by the store, followed by the synchronous code up to the    *)
(* next await.  COMMIT and the 201 response are two actions, because other *)
(* connections' statements can execute between the store's commit and the  *)
(* resumption of the handler.                                              *)
(***************************************************************************)
EXTENDS Integers, Sequences, FiniteSets, TLC

\* ------------------------------------------------------------------ bounds
MaxReqs == 1        \* task-creation requests of Spec
MaxFiles == 1       \* uploaded images per request (multer allows up to 5)
MaxLedgerReqs == 1  \* task-creation requests of LedgerSpec
MaxLedgerOps == 2   \* ledger requests (list / mark-read / clear) of LedgerSpec
MaxRtReqs == 1      \* task-creation requests of RealtimeSpec
MaxRtOps == 1       \* ledger requests (list / clear) of RealtimeSpec
MaxSocks == 1       \* realtime connections of RealtimeSpec
MaxPartReqs == 2    \* part requests (create / update) of PartsSpec
MaxConcReqs == 2    \* task-creation requests of ConcurrentSpec
MaxCatReqs == 1     \* task-creation requests of CatalogSpec
MaxCatPartReqs == 1 \* part requests of CatalogSpec
MaxAcctReqs == 2    \* user updates in flight at once in AccountsSpec
MaxAcctOps == 2     \* user updates received in AccountsSpec
MaxUserSlots == 2   \* account requests in flight at once in SessionsSpec
MaxUserOps == 3     \* account requests received in SessionsSpec
MaxClock == 7       \* days that pass in SessionsSpec
PoolSize == 2       \* clients of the pool in ConcurrentSpec (pg: max, 10 by default)

\* the larger of two bounds
Larger(a, b) == IF a > b THEN a ELSE b

Reqs ==
  1..Larger(Larger(Larger(MaxReqs, MaxConcReqs), MaxCatReqs),
            Larger(MaxLedgerReqs, MaxRtReqs))

Socks == 1..MaxSocks

PartReqs == 1..Larger(MaxPartReqs, MaxCatPartReqs)

UserSlots == 1..Larger(MaxUserSlots, MaxAcctReqs)

\* the roles that issue ledger requests in LedgerSpec: a recipient of the
\* fan-out and a role that is not a recipient
Requesters == {"HOD", "Quality"}

\* --------------------------------------------------------------- constants
\* register.js:149  the closed set of user roles
Roles == {"Admin", "HOD", "Employee", "Quality", "PDC"}

\* the recipient list without PDC
rolesWithoutPDC == <<"HOD", "Employee">>

\* tasks.js:78  const roles = ['HOD', 'PDC', 'Employee']
roles == <<"HOD", "PDC", "Employee">>

TargetRoles == {roles[i] : i \in 1..Len(roles)}

\* request body values of POST /api/tasks (tasks.js:49); "" is a missing field
SapCodes == {"X1", "NOPE", ""}
PartNames == {"Bolt", ""}
Locations == {"Line3", ""}

\* paths multer gives to the images of request r (tasks.js:30-33, unique names)
UploadPaths(r) == {<<r, k>> : k \in 1..MaxFiles}

NoPart == [id |-> 0, part_name |-> "", company_name |-> "", sap_code |-> ""]

\* a row with recipient_role 'all' is inserted by no route of this server;
\* the ledger queries select it (notifications.js:26,42,59), so the store
\* starts with one
SeedNotification ==
  [id |-> 1, task_id |-> 0, part_name |-> "Bolt", company_name |-> "Acme",
   sap_code |-> "X1", location |-> "Line1", recipient_role |-> "all", read |-> FALSE,
   created_at |-> 0]

\* login.js:73-79  expiresIn: '7d' and Date.now() + 7 * 24 * 60 * 60 * 1000,
\* in days
RefreshTtlDays == 7

\* bcrypt.hash / bcrypt.compare (register.js:208, login.js:57)
Hash(password) == <<"bcrypt", password>>

\* no row of users
NoUser ==
  [id |-> 0, email |-> "", role |-> "", name |-> "", phone_number |-> "",
   password |-> <<>>]

\* no Authorization header (auth.js:5-9)
NoAccess == [id |-> 0, role |-> "", iat |-> 0 - 1]

\* no refreshToken in the body (login.js:102), and a string that
\* JWT_REFRESH_SECRET did not sign
NoRefresh == [uid |-> 0, iat |-> 0 - 1]
ForgedRefresh == [uid |-> 2, iat |-> 0 - 2]

\* an account request that was not received yet
NoUserReq ==
  [op |-> "", pc |-> "idle", status |-> 0, actor |-> NoAccess, id |-> 0,
   email |-> "", role |-> "", name |-> "", phone |-> "", password |-> "",
   token |-> NoRefresh, user |-> NoUser]

NoTxn == [state |-> "none", tasks |-> {}, notifs |-> {}, start |-> 0]

\* server.js:34-54  a socket that has not sent its handshake
NoSocket == [state |-> "idle", token |-> [kind |-> "none", role |-> ""],
             user |-> "", rooms |-> {}, received |-> <<>>]

\* parts.js:22-150  a part request that has not arrived
NoPartReq == [pc |-> "idle", op |-> "", role |-> "", id |-> 0,
              part_name |-> "", company_name |-> "", sap_code |-> "",
              old |-> NoPart, status |-> 0]

NoResp == [op |-> "none", role |-> "", id |-> 0, status |-> 0, rows |-> <<>>]

\* ------------------------------------------------------------------- state
VARIABLES
  parts,          \* table parts
  tasks,          \* table quality_tasks, committed rows
  notifications,  \* table notifications, committed rows
  taskSeq,        \* next value of quality_tasks.id
  notifSeq,       \* next value of notifications.id
  now,            \* the store's clock (CURRENT_TIMESTAMP)
  disk,           \* files present under Uploads/images
  channel,        \* per role room: the events emitted to it, in order
  pc,             \* per request: position in the handler
  input,          \* per request: req.body and req.files
  part,           \* per request: const part
  task,           \* per request: task.id, 0 before the insert returned
  idx,            \* per request: position of the for loop in roles
  err,            \* per request: the error caught by the handler
  status,         \* per request: HTTP status sent, 0 when none was sent
  conn,           \* per request: the pooled client
  txn,            \* per request: the transaction of its client
  resp,           \* response of the last ledger request
  ledgerOps,      \* number of ledger requests served
  sock,           \* per realtime connection: the socket
  partSeq,        \* next value of parts.id
  preq,           \* per part request: position, request and local variables
  users,          \* table users
  refreshTokens,  \* table refresh_tokens
  access,         \* access tokens that clients hold
  issued,         \* refresh tokens that clients hold
  clock,          \* days since the start
  ureq,           \* per account request: position, request and local variables
  userOps         \* number of account requests received

vars == <<parts, tasks, notifications, taskSeq, notifSeq, now, disk, channel,
          pc, input, part, task, idx, err, status, conn, txn, resp, ledgerOps,
          sock, partSeq, preq, users, refreshTokens, access, issued, clock,
          ureq, userOps>>

storeVars == <<parts, tasks, notifications, taskSeq, notifSeq, now>>
ledgerVars == <<resp, ledgerOps>>
partVars == <<partSeq, preq>>
userVars == <<users, refreshTokens, access, issued, clock, ureq, userOps>>
otherVars == <<parts, tasks, notifications, taskSeq, notifSeq, now, disk,
               channel, pc, input, part, task, idx, err, status, conn, txn,
               resp, ledgerOps, sock, partSeq, preq>>
taskVars == <<disk, channel, pc, input, part, task, idx, err, status, conn, txn>>

Init ==
  /\ parts = {[id |-> 1, part_name |-> "Bolt", company_name |-> "Acme",
               sap_code |-> "X1"]}
  /\ tasks = {}
  /\ notifications = {SeedNotification}
  /\ taskSeq = 1
  /\ notifSeq = 2
  /\ now = 1
  /\ disk = {}
  /\ channel = [role \in TargetRoles |-> <<>>]
  /\ pc = [r \in Reqs |-> "idle"]
  /\ input = [r \in Reqs |->
               [sapCode |-> "", partName |-> "", location |-> "", files |-> {}]]
  /\ part = [r \in Reqs |-> NoPart]
  /\ task = [r \in Reqs |-> 0]
  /\ idx = [r \in Reqs |-> 0]
  /\ err = [r \in Reqs |-> "none"]
  /\ status = [r \in Reqs |-> 0]
  /\ conn = [r \in Reqs |-> "none"]
  /\ txn = [r \in Reqs |-> NoTxn]
  /\ resp = NoResp
  /\ ledgerOps = 0
  /\ sock = [s \in Socks |-> NoSocket]
  /\ partSeq = 2
  /\ preq = [q \in PartReqs |-> NoPartReq]
  /\ users = {[id |-> 1, email |-> "a@x", role |-> "Admin", name |-> "Ann",
               phone_number |-> "+900", password |-> Hash("pw")],
              [id |-> 2, email |-> "b@x", role |-> "Employee", name |-> "Bob",
               phone_number |-> "+900", password |-> Hash("pw")]}
  /\ refreshTokens = {[token |-> [uid |-> u, iat |-> 0], user_id |-> u,
                       expires_at |-> RefreshTtlDays] : u \in {1, 2}}
  /\ access = {[id |-> 1, role |-> "Admin", iat |-> 0],
               [id |-> 2, role |-> "Employee", iat |-> 0]}
  /\ issued = {[uid |-> u, iat |-> 0] : u \in {1, 2}}
  /\ clock = 0
  /\ ureq = [q \in UserSlots |-> NoUserReq]
  /\ userOps = 0

\* ------------------------------------------------- POST /api/tasks handler

\* multer has stored the images and parsed the body; the handler is entered
Receive(r, sap, pn, loc, fs) ==
  /\ pc[r] = "idle"
  /\ input' = [input EXCEPT ![r] =
                 [sapCode |-> sap, partName |-> pn, location |-> loc, files |-> fs]]
  /\ disk' = disk \cup fs
  /\ pc' = [pc EXCEPT ![r] = "validate"]
  /\ UNCHANGED <<storeVars, channel, part, task, idx, err, status, conn, txn,
                 ledgerVars, partVars, sock,
                 userVars>>

\* the field check without the location
MissingFieldWithoutLocation(in) == in.partName = "" \/ in.sapCode = ""

\* tasks.js:51  !partName || !sapCode || !location
MissingField(in) == in.partName = "" \/ in.sapCode = "" \/ in.location = ""

\* tasks.js:49-56
Validate(r) ==
  /\ pc[r] = "validate"
  /\ IF MissingField(input[r])
       THEN /\ disk' = disk \ input[r].files
            /\ status' = [status EXCEPT ![r] = 400]
            /\ pc' = [pc EXCEPT ![r] = "done"]
       ELSE /\ pc' = [pc EXCEPT ![r] = "connect"]
            /\ UNCHANGED <<disk, status>>
  /\ UNCHANGED <<storeVars, channel, input, part, task, idx, err, conn, txn,
                 ledgerVars, partVars, sock,
                 userVars>>

\* tasks.js:56  await pool.connect(); a rejection is outside the try block:
\* the handler ends without a response
Connect(r, ok) ==
  /\ pc[r] = "connect"
  /\ IF ok
       THEN /\ conn' = [conn EXCEPT ![r] = "held"]
            /\ pc' = [pc EXCEPT ![r] = "begin"]
       ELSE /\ pc' = [pc EXCEPT ![r] = "done"]
            /\ UNCHANGED conn
  /\ UNCHANGED <<storeVars, disk, channel, input, part, task, idx, err, status,
                 txn, ledgerVars, partVars, sock,
                 userVars>>

\* the transaction after a statement of it was reported as failed
Aborted(t) == IF t.state = "open" THEN [t EXCEPT !.state = "aborted"] ELSE t

\* tasks.js:58  await client.query('BEGIN')
Begin(r, ok) ==
  /\ pc[r] = "begin"
  /\ IF ok
       THEN /\ \E tick \in {0, 1} :
                 /\ now' = now + tick
                 /\ txn' = [txn EXCEPT ![r] =
                              [state |-> "open", tasks |-> {}, notifs |-> {},
                               start |-> now + tick]]
            /\ pc' = [pc EXCEPT ![r] = "select"]
            /\ UNCHANGED err
       ELSE /\ err' = [err EXCEPT ![r] = "storage"]
            /\ pc' = [pc EXCEPT ![r] = "rollback"]
            /\ UNCHANGED <<now, txn>>
  /\ UNCHANGED <<parts, tasks, notifications, taskSeq, notifSeq, disk, channel,
                 input, part, task, idx, status, conn, ledgerVars, partVars, sock,
                 userVars>>

\* tasks.js:60  SELECT ... FROM parts WHERE sap_code = $1
PartsBySapCode(sap) == {p \in parts : p.sap_code = sap}

\* tasks.js:60-64
SelectPart(r, ok) ==
  /\ pc[r] = "select"
  /\ IF ~ok
       THEN /\ err' = [err EXCEPT ![r] = "storage"]
            /\ txn' = [txn EXCEPT ![r] = Aborted(@)]
            /\ pc' = [pc EXCEPT ![r] = "rollback"]
            /\ UNCHANGED part
       ELSE IF PartsBySapCode(input[r].sapCode) = {}
         THEN /\ err' = [err EXCEPT ![r] = "notfound"]
              /\ pc' = [pc EXCEPT ![r] = "rollback"]
              /\ UNCHANGED <<part, txn>>
         ELSE /\ \E p \in PartsBySapCode(input[r].sapCode) :
                   part' = [part EXCEPT ![r] = p]
              /\ pc' = [pc EXCEPT ![r] = "insertTask"]
              /\ UNCHANGED <<err, txn>>
  /\ UNCHANGED <<storeVars, disk, channel, input, task, idx, status, conn,
                 ledgerVars, partVars, sock,
                 userVars>>

\* the task insert sent through the pool instead of the transaction's client:
\* the row is committed at once
InsertTaskAutocommit(r, ok) ==
  /\ pc[r] = "insertTask"
  /\ IF ok
       THEN /\ tasks' = tasks \cup
                        {[id |-> taskSeq, part_id |-> part[r].id,
                          location |-> input[r].location,
                          image_urls |-> input[r].files,
                          created_at |-> now]}
            /\ task' = [task EXCEPT ![r] = taskSeq]
            /\ taskSeq' = taskSeq + 1
            /\ idx' = [idx EXCEPT ![r] = 1]
            /\ pc' = [pc EXCEPT ![r] = "insertNotif"]
            /\ UNCHANGED <<err, txn>>
       ELSE /\ err' = [err EXCEPT ![r] = "storage"]
            /\ txn' = [txn EXCEPT ![r] = Aborted(@)]
            /\ pc' = [pc EXCEPT ![r] = "rollback"]
            /\ UNCHANGED <<task, taskSeq, idx, tasks>>
  /\ UNCHANGED <<parts, notifications, notifSeq, now, disk, channel,
                 input, part, status, conn, ledgerVars, partVars, sock,
                 userVars>>

\* the foreign key of quality_tasks.part_id, as the store enforces it on an
\* insert: the part row must exist
PartRowExists(id) == \E p \in parts : p.id = id

\* tasks.js:66-75  INSERT INTO quality_tasks ... RETURNING id, ...; the store
\* rejects the statement when the part row is gone
InsertTask(r, ok) ==
  /\ pc[r] = "insertTask"
  /\ IF ok /\ PartRowExists(part[r].id)
       THEN /\ txn' = [txn EXCEPT ![r].tasks = @ \cup
                        {[id |-> taskSeq, part_id |-> part[r].id,
                          location |-> input[r].location,
                          image_urls |-> input[r].files,
                          created_at |-> txn[r].start]}]
            /\ task' = [task EXCEPT ![r] = taskSeq]
            /\ taskSeq' = taskSeq + 1
            /\ idx' = [idx EXCEPT ![r] = 1]
            /\ pc' = [pc EXCEPT ![r] = "insertNotif"]
            /\ UNCHANGED err
       ELSE /\ err' = [err EXCEPT ![r] = "storage"]
            /\ txn' = [txn EXCEPT ![r] = Aborted(@)]
            /\ pc' = [pc EXCEPT ![r] = "rollback"]
            /\ UNCHANGED <<task, taskSeq, idx>>
  /\ UNCHANGED <<parts, tasks, notifications, notifSeq, now, disk, channel,
                 input, part, status, conn, ledgerVars, partVars, sock,
                 userVars>>

\* the row of a handler that keeps the created task in a variable shared by
\* all requests: it carries the id of the task inserted last
NotificationRowOfLatestTask(r, id, role) ==
  [id |-> id, task_id |-> taskSeq - 1, part_name |-> part[r].part_name,
   company_name |-> part[r].company_name, sap_code |-> part[r].sap_code, location |-> input[r].location,
   recipient_role |-> role, read |-> FALSE, created_at |-> txn[r].start]

\* tasks.js:79-92  the row of INSERT INTO notifications for one role
NotificationRow(r, id, role) ==
  [id |-> id, task_id |-> task[r], part_name |-> part[r].part_name,
   company_name |-> part[r].company_name, sap_code |-> part[r].sap_code, location |-> input[r].location,
   recipient_role |-> role, read |-> FALSE, created_at |-> txn[r].start]

\* tasks.js:93-104  the payload of the emitted event
EventPayload(r, role) ==
  [id |-> task[r], task_id |-> task[r], recipient_role |-> role, read |-> FALSE]

\* io.emit(...): the event is sent to every connected socket
DeliveredToEverySocket(role, ev) ==
  [s \in Socks |->
     IF sock[s].state = "connected"
       THEN [sock[s] EXCEPT !.received = Append(@, ev)]
       ELSE sock[s]]

\* tasks.js:93  req.io.to(`role:${role}`).emit(...): the sockets after the
\* event was sent to every connected socket that is in the role's room
Delivered(role, ev) ==
  [s \in Socks |->
     IF sock[s].state = "connected" /\ role \in sock[s].rooms
       THEN [sock[s] EXCEPT !.received = Append(@, ev)]
       ELSE sock[s]]

\* tasks.js:83-105  one iteration of the loop: the insert, then the emit
InsertNotif(r, ok, emitOk) ==
  /\ pc[r] = "insertNotif"
  /\ IF ~ok
       THEN /\ err' = [err EXCEPT ![r] = "storage"]
            /\ txn' = [txn EXCEPT ![r] = Aborted(@)]
            /\ pc' = [pc EXCEPT ![r] = "rollback"]
            /\ UNCHANGED <<notifSeq, channel, idx, sock>>
       ELSE /\ txn' = [txn EXCEPT ![r].notifs = @ \cup
                        {NotificationRow(r, notifSeq, roles[idx[r]])}]
            /\ notifSeq' = notifSeq + 1
            /\ IF emitOk
                 THEN /\ channel' = [channel EXCEPT ![roles[idx[r]]] =
                                       Append(@, EventPayload(r, roles[idx[r]]))]
                      /\ sock' = Delivered(roles[idx[r]],
                                           EventPayload(r, roles[idx[r]]))
                      /\ IF idx[r] < Len(roles)
                           THEN /\ idx' = [idx EXCEPT ![r] = @ + 1]
                                /\ UNCHANGED pc
                           ELSE /\ pc' = [pc EXCEPT ![r] = "commit"]
                                /\ UNCHANGED idx
                      /\ UNCHANGED err
                 ELSE /\ err' = [err EXCEPT ![r] = "emit"]
                      /\ pc' = [pc EXCEPT ![r] = "rollback"]
                      /\ UNCHANGED <<channel, idx, sock>>
  /\ UNCHANGED <<parts, tasks, notifications, taskSeq, now, disk, input, part,
                 task, status, conn, ledgerVars, partVars,
                 userVars>>

\* COMMIT whose rejection is not noticed: the handler goes on to the response
CommitUnchecked(r, ok) ==
  /\ pc[r] = "commit"
  /\ IF ok
       THEN /\ tasks' = tasks \cup txn[r].tasks
            /\ notifications' = notifications \cup txn[r].notifs
            /\ txn' = [txn EXCEPT ![r] = [@ EXCEPT !.state = "committed"]]
       ELSE /\ txn' = [txn EXCEPT ![r] = Aborted(@)]
            /\ UNCHANGED <<tasks, notifications>>
  /\ pc' = [pc EXCEPT ![r] = "respond"]
  /\ UNCHANGED <<parts, taskSeq, notifSeq, now, disk, channel, input, part,
                 task, idx, err, status, conn, ledgerVars, partVars, sock,
                 userVars>>

\* tasks.js:107  await client.query('COMMIT'), as executed by the store
Commit(r, ok) ==
  /\ pc[r] = "commit"
  /\ IF ok
       THEN /\ tasks' = tasks \cup txn[r].tasks
            /\ notifications' = notifications \cup txn[r].notifs
            /\ txn' = [txn EXCEPT ![r] = [@ EXCEPT !.state = "committed"]]
            /\ pc' = [pc EXCEPT ![r] = "respond"]
            /\ UNCHANGED err
       ELSE /\ err' = [err EXCEPT ![r] = "storage"]
            /\ txn' = [txn EXCEPT ![r] = Aborted(@)]
            /\ pc' = [pc EXCEPT ![r] = "rollback"]
            /\ UNCHANGED <<tasks, notifications>>
  /\ UNCHANGED <<parts, taskSeq, notifSeq, now, disk, channel, input, part,
                 task, idx, status, conn, ledgerVars, partVars, sock,
                 userVars>>

\* a handler without the finally block: the client stays as it was
ReleaseSkipped(c) == c

\* tasks.js:127-129  finally { client.release() }: the pooled client after the
\* call; releasing a client that is not held is a second release
Release(c) == IF c = "held" THEN "released" ELSE "released-twice"

\* tasks.js:108-121 and 127-129  the 201 response, then finally
Respond(r) ==
  /\ pc[r] = "respond"
  /\ status' = [status EXCEPT ![r] = 201]
  /\ conn' = [conn EXCEPT ![r] = Release(@)]
  /\ pc' = [pc EXCEPT ![r] = "done"]
  /\ UNCHANGED <<storeVars, disk, channel, input, part, task, idx, err, txn,
                 ledgerVars, partVars, sock,
                 userVars>>

\* the transaction after ROLLBACK succeeded: its staged rows are discarded
RolledBack(t) ==
  IF t.state \in {"open", "aborted"}
    THEN [t EXCEPT !.state = "rolledback", !.tasks = {}, !.notifs = {}]
    ELSE t

\* tasks.js:122-129  catch: ROLLBACK, delete the images, 500; then finally.
\* A rejected ROLLBACK is thrown out of the catch block: finally releases the
\* client, the images stay and no response is sent.
Rollback(r, ok) ==
  /\ pc[r] = "rollback"
  /\ IF ok
       THEN /\ txn' = [txn EXCEPT ![r] = RolledBack(@)]
            /\ disk' = disk \ input[r].files
            /\ status' = [status EXCEPT ![r] = 500]
       ELSE /\ txn' = [txn EXCEPT ![r] = Aborted(@)]
            /\ UNCHANGED <<disk, status>>
  /\ conn' = [conn EXCEPT ![r] = Release(@)]
  /\ pc' = [pc EXCEPT ![r] = "done"]
  /\ UNCHANGED <<storeVars, channel, input, part, task, idx, err, ledgerVars,
                 partVars, sock,
                 userVars>>

CreateTask(r) ==
  \/ \E sap \in SapCodes, pn \in PartNames, loc \in Locations,
        fs \in SUBSET UploadPaths(r) : Receive(r, sap, pn, loc, fs)
  \/ Validate(r)
  \/ \E ok \in BOOLEAN : Connect(r, ok)
  \/ \E ok \in BOOLEAN : Begin(r, ok)
  \/ \E ok \in BOOLEAN : SelectPart(r, ok)
  \/ \E ok \in BOOLEAN : InsertTask(r, ok)
  \/ \E ok \in BOOLEAN, emitOk \in BOOLEAN : InsertNotif(r, ok, emitOk)
  \/ \E ok \in BOOLEAN : Commit(r, ok)
  \/ Respond(r)
  \/ \E ok \in BOOLEAN : Rollback(r, ok)

\* ------------------------------------------------------ notification ledger

\* the SELECT without the 'all' rows
ListWhereOwnRole(n, role) == n.recipient_role = role

\* notifications.js:26  WHERE recipient_role = $1 OR recipient_role = 'all'
ListWhere(n, role) == n.recipient_role = role \/ n.recipient_role = "all"

\* the UPDATE without the role condition
MarkReadWhereAnyRole(n, id, role) == n.id = id

\* notifications.js:42  WHERE id = $1 AND (recipient_role = $2 OR recipient_role = 'all')
MarkReadWhere(n, id, role) ==
  n.id = id /\ (n.recipient_role = role \/ n.recipient_role = "all")

\* the DELETE without its WHERE clause
ClearWhereAnyRow(n, role) == TRUE

\* notifications.js:59  WHERE recipient_role = $1 OR recipient_role = 'all'
ClearWhere(n, role) == n.recipient_role = role \/ n.recipient_role = "all"

\* ORDER BY created_at ASC
OrderedByCreatedAtAsc(s) ==
  \A i, j \in 1..Len(s) : i < j => s[i].created_at <= s[j].created_at

\* notifications.js:27  ORDER BY created_at DESC
OrderedByCreatedAtDesc(s) ==
  \A i, j \in 1..Len(s) : i < j => s[i].created_at >= s[j].created_at

\* the sequences that enumerate the set S once each
Enumerations(S) ==
  {s \in [1..Cardinality(S) -> S] : \A i, j \in 1..Cardinality(S) : s[i] = s[j] => i = j}

\* notifications.js:23-29  the result sets the SELECT may return (rows of equal
\* created_at come in any order)
SelectFrom(store, role) ==
  {s \in Enumerations({n \in store : ListWhere(n, role)}) :
     OrderedByCreatedAtDesc(s)}

SelectNotifications(role) == SelectFrom(notifications, role)

\* notifications.js:21-36  GET /api/notifications
ListForRole(role, ok) ==
  /\ ledgerOps < MaxLedgerOps
  /\ ledgerOps' = ledgerOps + 1
  /\ IF ok
       THEN \E s \in SelectNotifications(role) :
              resp' = [op |-> "list", role |-> role, id |-> 0, status |-> 200,
                       rows |-> s]
       ELSE resp' = [op |-> "list", role |-> role, id |-> 0, status |-> 500,
                     rows |-> <<>>]
  /\ UNCHANGED <<storeVars, disk, channel, pc, input, part, task, idx, err,
                 status, conn, txn, partVars, sock,
                 userVars>>

\* an update that flips the flag instead of setting it
ReadFlipped(n) == [n EXCEPT !.read = ~@]

\* notifications.js:42  UPDATE notifications SET read = TRUE
ReadSet(n) == [n EXCEPT !.read = TRUE]

\* notifications.js:39-54  PATCH /api/notifications/:id/read
MarkRead(id, role, ok) ==
  /\ ledgerOps < MaxLedgerOps
  /\ ledgerOps' = ledgerOps + 1
  /\ IF ~ok
       THEN /\ resp' = [op |-> "markRead", role |-> role, id |-> id,
                        status |-> 500, rows |-> <<>>]
            /\ UNCHANGED notifications
       ELSE LET hit == {n \in notifications : MarkReadWhere(n, id, role)}
                upd == {ReadSet(n) : n \in hit}
            IN /\ notifications' = (notifications \ hit) \cup upd
               /\ IF upd = {}
                    THEN resp' = [op |-> "markRead", role |-> role, id |-> id,
                                  status |-> 404, rows |-> <<>>]
                    ELSE \E n \in upd :
                           resp' = [op |-> "markRead", role |-> role, id |-> id,
                                    status |-> 200, rows |-> <<n>>]
  /\ UNCHANGED <<parts, tasks, taskSeq, notifSeq, now, disk, channel, pc, input,
                 part, task, idx, err, status, conn, txn, partVars, sock,
                 userVars>>

\* notifications.js:57-67  DELETE /api/notifications/clear
ClearForRole(role, ok) ==
  /\ ledgerOps < MaxLedgerOps
  /\ ledgerOps' = ledgerOps + 1
  /\ IF ok
       THEN /\ notifications' = {n \in notifications : ~ClearWhere(n, role)}
            /\ resp' = [op |-> "clear", role |-> role, id |-> 0, status |-> 200,
                        rows |-> <<>>]
       ELSE /\ resp' = [op |-> "clear", role |-> role, id |-> 0, status |-> 500,
                        rows |-> <<>>]
            /\ UNCHANGED notifications
  /\ UNCHANGED <<parts, tasks, taskSeq, notifSeq, now, disk, channel, pc, input,
                 part, task, idx, err, status, conn, txn, partVars, sock,
                 userVars>>

\* ------------------------------------------------------- realtime channels

\* the value of socket.handshake.auth.token: absent (or without the "Bearer "
\* prefix), not verifiable with JWT_ACCESS_SECRET, or an access token signed
\* at login with the user's role (login.js:65-69)
Tokens ==
  {[kind |-> "none", role |-> ""], [kind |-> "invalid", role |-> ""]}
    \cup {[kind |-> "valid", role |-> role] : role \in Roles}

\* a connection handler that joins the room of every role
JoinedRoomsOfEveryRole(user) == Roles

\* server.js:50  socket.join(`role:${socket.user.role}`)
JoinedRooms(user) == {user}

\* a connection handler that replays to the new socket the events published
\* so far on its role's channel
SocketConnectWithReplay(s, token) ==
  /\ sock[s].state = "idle"
  /\ IF token.kind = "valid"
       THEN sock' = [sock EXCEPT ![s] =
                       [state |-> "connected", token |-> token,
                        user |-> token.role, rooms |-> JoinedRooms(token.role),
                        received |-> IF token.role \in TargetRoles
                                       THEN channel[token.role] ELSE <<>>]]
       ELSE sock' = [sock EXCEPT ![s] =
                       [state |-> "rejected", token |-> token, user |-> "",
                        rooms |-> {}, received |-> <<>>]]
  /\ UNCHANGED <<storeVars, disk, channel, pc, input, part, task, idx, err,
                 status, conn, txn, ledgerVars, partVars,
                 userVars>>

\* server.js:34-54  io.use authentication, then the connection handler
SocketConnect(s, token) ==
  /\ sock[s].state = "idle"
  /\ IF token.kind = "valid"
       THEN sock' = [sock EXCEPT ![s] =
                       [state |-> "connected", token |-> token,
                        user |-> token.role, rooms |-> JoinedRooms(token.role),
                        received |-> <<>>]]
       ELSE sock' = [sock EXCEPT ![s] =
                       [state |-> "rejected", token |-> token, user |-> "",
                        rooms |-> {}, received |-> <<>>]]
  /\ UNCHANGED <<storeVars, disk, channel, pc, input, part, task, idx, err,
                 status, conn, txn, ledgerVars, partVars,
                 userVars>>

\* server.js:51-53  the client goes away: socket.io takes the socket out of
\* its rooms
SocketDisconnect(s) ==
  /\ sock[s].state = "connected"
  /\ sock' = [sock EXCEPT ![s] = [@ EXCEPT !.state = "disconnected",
                                           !.rooms = {}]]
  /\ UNCHANGED <<storeVars, disk, channel, pc, input, part, task, idx, err,
                 status, conn, txn, ledgerVars, partVars,
                 userVars>>

\* ------------------------------------------------------ /api/parts handlers

\* the middleware without restrictTo: any verified token passes
AuthorizeTokenOnly(token, allowed) == IF token.kind # "valid" THEN 401 ELSE 0

\* auth.js:4-27  verifyToken, then restrictTo(...allowed): the status the
\* middleware answers with, 0 when it calls next()
Authorize(token, allowed) ==
  IF token.kind # "valid" THEN 401
  ELSE IF token.role \notin allowed THEN 403
  ELSE 0

\* parts.js:26  !part_name || !sap_code
CreateBodyInvalid(pn, cn, sap) == pn = "" \/ sap = ""

\* parts.js:105  !part_name && !company_name && !sap_code
UpdateBodyInvalid(pn, cn, sap) == pn = "" /\ cn = "" /\ sap = ""

\* parts.js:22, 100, 155  the roles named in restrictTo(...) of each route
AllowedRoles(op) == IF op = "delete" THEN {"Admin"} ELSE {"Admin", "HOD"}

\* parts.js:22-30, 100-107 and 155-156  the middleware and the validation of
\* POST /api/parts (op "create"), PUT /api/parts/:id (op "update") and
\* DELETE /api/parts/:id (op "delete"), up to the handler's first query
PartReceive(q, op, token, id, pn, cn, sap) ==
  /\ preq[q].pc = "idle"
  /\ LET denied == Authorize(token, AllowedRoles(op))
         invalid == CASE op = "create" -> CreateBodyInvalid(pn, cn, sap)
                      [] op = "update" -> UpdateBodyInvalid(pn, cn, sap)
                      [] OTHER -> FALSE
         rec == [NoPartReq EXCEPT !.op = op, !.role = token.role, !.id = id,
                                  !.part_name = pn, !.company_name = cn,
                                  !.sap_code = sap]
     IN preq' = [preq EXCEPT ![q] =
                   IF denied # 0
                     THEN [rec EXCEPT !.pc = "done", !.status = denied]
                   ELSE IF invalid
                     THEN [rec EXCEPT !.pc = "done", !.status = 400]
                   ELSE [rec EXCEPT !.pc = CASE op = "create" -> "sapCheck"
                                             [] op = "update" -> "partCheck"
                                             [] OTHER -> "delete"]]
  /\ UNCHANGED <<storeVars, taskVars, ledgerVars, sock, partSeq,
                 userVars>>

\* parts.js:33-37  SELECT id FROM parts WHERE sap_code = $1
PartSapCheck(q, ok) ==
  /\ preq[q].pc = "sapCheck"
  /\ preq' = [preq EXCEPT ![q] =
                IF ~ok THEN [@ EXCEPT !.pc = "done", !.status = 500]
                ELSE IF \E p \in parts : p.sap_code = preq[q].sap_code
                  THEN [@ EXCEPT !.pc = "done", !.status = 400]
                ELSE [@ EXCEPT !.pc = "insert"]]
  /\ UNCHANGED <<storeVars, taskVars, ledgerVars, sock, partSeq,
                 userVars>>

\* parts.js:40-49  INSERT INTO parts ... RETURNING *, then the 201 response
PartInsert(q, ok) ==
  /\ preq[q].pc = "insert"
  /\ IF ok
       THEN /\ parts' = parts \cup
                          {[id |-> partSeq, part_name |-> preq[q].part_name,
                            company_name |-> preq[q].company_name,
                            sap_code |-> preq[q].sap_code]}
            /\ partSeq' = partSeq + 1
            /\ preq' = [preq EXCEPT ![q] = [@ EXCEPT !.pc = "done",
                                                     !.status = 201]]
       ELSE /\ preq' = [preq EXCEPT ![q] = [@ EXCEPT !.pc = "done",
                                                     !.status = 500]]
            /\ UNCHANGED <<parts, partSeq>>
  /\ UNCHANGED <<tasks, notifications, taskSeq, notifSeq, now, taskVars,
                 ledgerVars, sock,
                 userVars>>

\* parts.js:111-115  SELECT * FROM parts WHERE id = $1
PartCheck(q, ok) ==
  /\ preq[q].pc = "partCheck"
  /\ IF ~ok
       THEN preq' = [preq EXCEPT ![q] = [@ EXCEPT !.pc = "done",
                                                  !.status = 500]]
     ELSE IF \A p \in parts : p.id # preq[q].id
       THEN preq' = [preq EXCEPT ![q] = [@ EXCEPT !.pc = "done",
                                                  !.status = 404]]
     ELSE \E p \in parts :
            /\ p.id = preq[q].id
            /\ preq' = [preq EXCEPT ![q] =
                          [@ EXCEPT !.old = p,
                                    !.pc = IF preq[q].sap_code # ""
                                             THEN "sapCheckOther"
                                             ELSE "update"]]
  /\ UNCHANGED <<storeVars, taskVars, ledgerVars, sock, partSeq,
                 userVars>>

\* parts.js:118-124  SELECT id FROM parts WHERE sap_code = $1 AND id != $2
PartSapCheckOther(q, ok) ==
  /\ preq[q].pc = "sapCheckOther"
  /\ preq' = [preq EXCEPT ![q] =
                IF ~ok THEN [@ EXCEPT !.pc = "done", !.status = 500]
                ELSE IF \E p \in parts : /\ p.sap_code = preq[q].sap_code
                                         /\ p.id # preq[q].id
                  THEN [@ EXCEPT !.pc = "done", !.status = 400]
                ELSE [@ EXCEPT !.pc = "update"]]
  /\ UNCHANGED <<storeVars, taskVars, ledgerVars, sock, partSeq,
                 userVars>>

\* parts.js:128-131  field || oldPart.field
NewValue(field, old) == IF field # "" THEN field ELSE old

\* an update that also rewrites the notifications of the part's tasks
PartUpdateWithNotifications(q, ok) ==
  /\ preq[q].pc = "update"
  /\ IF ok
       THEN /\ parts' =
                 {IF p.id = preq[q].id
                    THEN [id |-> p.id,
                          part_name |-> NewValue(preq[q].part_name,
                                                 preq[q].old.part_name),
                          company_name |-> NewValue(preq[q].company_name,
                                                    preq[q].old.company_name),
                          sap_code |-> NewValue(preq[q].sap_code,
                                                preq[q].old.sap_code)]
                    ELSE p : p \in parts}
            /\ notifications' =
                 {IF \E t \in tasks : /\ t.id = n.task_id
                                      /\ t.part_id = preq[q].id
                    THEN [n EXCEPT !.part_name =
                                      NewValue(preq[q].part_name, @),
                                   !.company_name =
                                      NewValue(preq[q].company_name, @),
                                   !.sap_code =
                                      NewValue(preq[q].sap_code, @)]
                    ELSE n : n \in notifications}
            /\ preq' = [preq EXCEPT ![q] = [@ EXCEPT !.pc = "done",
                                                     !.status = 200]]
       ELSE /\ preq' = [preq EXCEPT ![q] = [@ EXCEPT !.pc = "done",
                                                     !.status = 500]]
            /\ UNCHANGED <<parts, notifications>>
  /\ UNCHANGED <<tasks, taskSeq, notifSeq, now, taskVars, ledgerVars, sock,
                 partSeq,
                 userVars>>

\* parts.js:127-144  UPDATE parts SET ... WHERE id = $4 with the values built
\* from the request and the row read by the first query, then the response
PartUpdate(q, ok) ==
  /\ preq[q].pc = "update"
  /\ IF ok
       THEN /\ parts' =
                 {IF p.id = preq[q].id
                    THEN [id |-> p.id,
                          part_name |-> NewValue(preq[q].part_name,
                                                 preq[q].old.part_name),
                          company_name |-> NewValue(preq[q].company_name,
                                                    preq[q].old.company_name),
                          sap_code |-> NewValue(preq[q].sap_code,
                                                preq[q].old.sap_code)]
                    ELSE p : p \in parts}
            /\ preq' = [preq EXCEPT ![q] = [@ EXCEPT !.pc = "done",
                                                     !.status = 200]]
       ELSE /\ preq' = [preq EXCEPT ![q] = [@ EXCEPT !.pc = "done",
                                                     !.status = 500]]
            /\ UNCHANGED parts
  /\ UNCHANGED <<tasks, notifications, taskSeq, notifSeq, now, taskVars,
                 ledgerVars, sock, partSeq,
                 userVars>>

\* the foreign key of quality_tasks.part_id, as the store enforces it on the
\* delete of a part: a committed task row references the part
ReferencedByTask(id) == \E t \in tasks : t.part_id = id

\* the same foreign key while a transaction that inserted a task for the part
\* is not yet ended: the delete waits for that transaction
LockedByInsert(id) ==
  \E r \in Reqs : /\ txn[r].state \in {"open", "aborted"}
                  /\ \E t \in txn[r].tasks : t.part_id = id

\* a catch block that answers every error alike
DeleteErrorStatusGeneric(code) == 500

\* parts.js:168-176  the catch block of DELETE /:id: 409 for the
\* foreign-key violation, 500 for any other error
DeleteErrorStatus(code) == IF code = "23503" THEN 409 ELSE 500

\* parts.js:157-166  DELETE FROM parts WHERE id = $1 RETURNING *
PartDelete(q, ok) ==
  /\ preq[q].pc = "delete"
  /\ ~LockedByInsert(preq[q].id)
  /\ IF ~ok
       THEN /\ preq' = [preq EXCEPT ![q] =
                         [@ EXCEPT !.pc = "done",
                                   !.status = DeleteErrorStatus("08006")]]
            /\ UNCHANGED parts
     ELSE IF ~PartRowExists(preq[q].id)
       THEN /\ preq' = [preq EXCEPT ![q] = [@ EXCEPT !.pc = "done",
                                                     !.status = 404]]
            /\ UNCHANGED parts
     ELSE IF ReferencedByTask(preq[q].id)
       THEN /\ preq' = [preq EXCEPT ![q] =
                         [@ EXCEPT !.pc = "done",
                                   !.status = DeleteErrorStatus("23503")]]
            /\ UNCHANGED parts
     ELSE /\ parts' = {p \in parts : p.id # preq[q].id}
          /\ preq' = [preq EXCEPT ![q] = [@ EXCEPT !.pc = "done",
                                                   !.status = 200]]
  /\ UNCHANGED <<tasks, notifications, taskSeq, notifSeq, now, taskVars,
                 ledgerVars, sock, partSeq,
                 userVars>>

\* ------------------------------------- /api/register and /api/login handlers

\* validator.isEmail (register.js:139, login.js:41)
IsEmail(email) == email \in {"a@x", "b@x", "c@x"}

\* validator.isMobilePhone(..., 'any', { strictMode: true }) (register.js:144)
IsMobilePhone(phone) == phone \in {"+900", "+901"}

\* auth.js:4-18  verifyToken: a token signed with JWT_ACCESS_SECRET less than
\* an hour ago ('1h', login.js:65-69)
VerifyAccess(actor) == actor # NoAccess /\ actor.iat = clock

\* login.js:109  jwt.verify(refreshToken, JWT_REFRESH_SECRET): signed at a
\* login and not older than '7d' (login.js:72-76)
VerifyRefresh(token) == token.iat >= 0 /\ clock < token.iat + RefreshTtlDays

\* the account request q after it ended with status st
Ended(q, st) == [ureq EXCEPT ![q] = [@ EXCEPT !.pc = "done", !.status = st]]

\* the account request q after it moved on to `next`
Goes(q, next) == [ureq EXCEPT ![q] = [@ EXCEPT !.pc = next]]

\* a slot takes its next request once the one before it has ended
Accepts(q) ==
  /\ ureq[q].pc \in {"idle", "done"}
  /\ userOps' = userOps + 1

\* a user update that lets every requester set the role
RoleDeniedNever(role, actor) == FALSE

\* register.js:155-158  only Admin can change role
RoleDenied(role, actor) == role # "" /\ actor.role # "Admin"

\* register.js:161-164  Admin or the user themselves
OtherDenied(id, actor) == actor.role # "Admin" /\ id # actor.id

\* register.js:133-164  PUT /api/register/:id: verifyToken, the validation
\* and the two permission checks.  name stands for the optional fields that
\* are set without a check (name, designation); the body carries no password
UpdateReceive(q, actor, id, email, role, name, phone) ==
  /\ Accepts(q)
  /\ LET rec == [NoUserReq EXCEPT !.op = "update", !.actor = actor, !.id = id,
                                  !.email = email, !.role = role,
                                  !.name = name, !.phone = phone]
         st == IF ~VerifyAccess(actor) THEN 401
               ELSE IF email # "" /\ ~IsEmail(email) THEN 400
               ELSE IF phone # "" /\ ~IsMobilePhone(phone) THEN 400
               ELSE IF role # "" /\ role \notin Roles THEN 400
               ELSE IF RoleDenied(role, actor) THEN 403
               ELSE IF OtherDenied(id, actor) THEN 403
               ELSE 0
     IN ureq' = [ureq EXCEPT ![q] =
                   IF st # 0 THEN [rec EXCEPT !.pc = "done", !.status = st]
                             ELSE [rec EXCEPT !.pc = "userCheck"]]
  /\ UNCHANGED <<otherVars, users, refreshTokens, access, issued, clock>>

\* register.js:168-172 and 217-220  SELECT id FROM users WHERE id = $1; with
\* no email in the body the handler goes on to build the update
UpdateUserCheck(q, ok) ==
  /\ ureq[q].pc = "userCheck"
  /\ ureq' =
       IF ~ok THEN Ended(q, 500)
       ELSE IF \A u \in users : u.id # ureq[q].id THEN Ended(q, 404)
       ELSE IF ureq[q].email # "" THEN Goes(q, "emailCheck")
       ELSE IF ureq[q].name = "" /\ ureq[q].phone = "" /\ ureq[q].role = ""
         THEN Ended(q, 400)
       ELSE Goes(q, "update")
  /\ UNCHANGED <<otherVars, users, refreshTokens, access, issued, clock,
                 userOps>>

\* register.js:175-181  SELECT id FROM users WHERE email = $1 AND id != $2
UpdateEmailCheck(q, ok) ==
  /\ ureq[q].pc = "emailCheck"
  /\ ureq' =
       IF ~ok THEN Ended(q, 500)
       ELSE IF \E u \in users : u.email = ureq[q].email /\ u.id # ureq[q].id
         THEN Ended(q, 400)
       ELSE Goes(q, "update")
  /\ UNCHANGED <<otherVars, users, refreshTokens, access, issued, clock,
                 userOps>>

\* register.js:188-208  a column is set when its field is in the body
Given(field, old) == IF field # "" THEN field ELSE old

\* register.js:184-229  UPDATE users SET ... WHERE id = $n
UpdateUser(q, ok) ==
  /\ ureq[q].pc = "update"
  /\ IF ok
       THEN /\ users' =
                 {IF u.id = ureq[q].id
                    THEN [u EXCEPT
                            !.email = Given(ureq[q].email, @),
                            !.name = Given(ureq[q].name, @),
                            !.phone_number = Given(ureq[q].phone, @),
                            !.role = IF ureq[q].actor.role = "Admin"
                                       THEN Given(ureq[q].role, @) ELSE @]
                    ELSE u : u \in users}
            /\ ureq' = Ended(q, 200)
       ELSE /\ ureq' = Ended(q, 500)
            /\ UNCHANGED users
  /\ UNCHANGED <<otherVars, refreshTokens, access, issued, clock, userOps>>

\* register.js:234-235  DELETE /api/register/:id: verifyToken,
\* restrictTo('Admin')
DeleteReceive(q, actor, id) ==
  /\ Accepts(q)
  /\ LET rec == [NoUserReq EXCEPT !.op = "delete", !.actor = actor, !.id = id]
         st == IF ~VerifyAccess(actor) THEN 401
               ELSE IF actor.role # "Admin" THEN 403
               ELSE 0
     IN ureq' = [ureq EXCEPT ![q] =
                   IF st # 0 THEN [rec EXCEPT !.pc = "done", !.status = st]
                             ELSE [rec EXCEPT !.pc = "delCheck"]]
  /\ UNCHANGED <<otherVars, users, refreshTokens, access, issued, clock>>

\* register.js:239-243  SELECT id FROM users WHERE id = $1
DeleteUserCheck(q, ok) ==
  /\ ureq[q].pc = "delCheck"
  /\ ureq' =
       IF ~ok THEN Ended(q, 500)
       ELSE IF \A u \in users : u.id # ureq[q].id THEN Ended(q, 404)
       ELSE Goes(q, "delTokens")
  /\ UNCHANGED <<otherVars, users, refreshTokens, access, issued, clock,
                 userOps>>

\* register.js:246  DELETE FROM refresh_tokens WHERE user_id = $1
DeleteTokens(q, ok) ==
  /\ ureq[q].pc = "delTokens"
  /\ IF ok
       THEN /\ refreshTokens' =
                 {t \in refreshTokens : t.user_id # ureq[q].id}
            /\ ureq' = Goes(q, "delUser")
       ELSE /\ ureq' = Ended(q, 500)
            /\ UNCHANGED refreshTokens
  /\ UNCHANGED <<otherVars, users, access, issued, clock, userOps>>

\* register.js:249-252  DELETE FROM users WHERE id = $1
DeleteUser(q, ok) ==
  /\ ureq[q].pc = "delUser"
  /\ IF ok
       THEN /\ users' = {u \in users : u.id # ureq[q].id}
            /\ ureq' = Ended(q, 200)
       ELSE /\ ureq' = Ended(q, 500)
            /\ UNCHANGED users
  /\ UNCHANGED <<otherVars, refreshTokens, access, issued, clock, userOps>>

\* login.js:32-44  POST /api/login: the validation
LoginReceive(q, email, password) ==
  /\ Accepts(q)
  /\ LET rec == [NoUserReq EXCEPT !.op = "login", !.email = email,
                                  !.password = password]
     IN ureq' = [ureq EXCEPT ![q] =
                   IF email = "" \/ password = "" \/ ~IsEmail(email)
                     THEN [rec EXCEPT !.pc = "done", !.status = 400]
                     ELSE [rec EXCEPT !.pc = "loginSelect"]]
  /\ UNCHANGED <<otherVars, users, refreshTokens, access, issued, clock>>

\* login.js:47-53  SELECT * FROM users WHERE email = $1
LoginSelect(q, ok) ==
  /\ ureq[q].pc = "loginSelect"
  /\ IF ~ok THEN ureq' = Ended(q, 500)
     ELSE IF \A u \in users : u.email # ureq[q].email
       THEN ureq' = Ended(q, 401)
     ELSE \E u \in users :
            /\ u.email = ureq[q].email
            /\ ureq' = [ureq EXCEPT ![q] = [@ EXCEPT !.user = u,
                                                     !.pc = "compare"]]
  /\ UNCHANGED <<otherVars, users, refreshTokens, access, issued, clock,
                 userOps>>

\* login.js:56-79  bcrypt.compare, then the two tokens are signed
LoginCompare(q) ==
  /\ ureq[q].pc = "compare"
  /\ ureq' =
       IF ureq[q].user.password # Hash(ureq[q].password)
         THEN Ended(q, 401)
         ELSE [ureq EXCEPT ![q] =
                 [@ EXCEPT !.token = [uid |-> ureq[q].user.id, iat |-> clock],
                           !.pc = "loginInsert"]]
  /\ UNCHANGED <<otherVars, users, refreshTokens, access, issued, clock,
                 userOps>>

\* login.js:80-92  INSERT INTO refresh_tokens, then the response that hands
\* both tokens to the client
LoginInsert(q, ok) ==
  /\ ureq[q].pc = "loginInsert"
  /\ IF ok
       THEN /\ refreshTokens' = refreshTokens \cup
                 {[token |-> ureq[q].token, user_id |-> ureq[q].user.id,
                   expires_at |-> ureq[q].token.iat + RefreshTtlDays]}
            /\ access' = access \cup
                 {[id |-> ureq[q].user.id, role |-> ureq[q].user.role,
                   iat |-> ureq[q].token.iat]}
            /\ issued' = issued \cup {ureq[q].token}
            /\ ureq' = Ended(q, 200)
       ELSE /\ ureq' = Ended(q, 500)
            /\ UNCHANGED <<refreshTokens, access, issued>>
  /\ UNCHANGED <<otherVars, users, clock, userOps>>

\* login.js:99-109  POST /api/login/refresh-token: the body check and
\* jwt.verify, whose error is answered by the catch block (login.js:138-141)
RefreshReceive(q, token) ==
  /\ Accepts(q)
  /\ LET rec == [NoUserReq EXCEPT !.op = "refresh", !.token = token]
     IN ureq' = [ureq EXCEPT ![q] =
                   IF token = NoRefresh
                     THEN [rec EXCEPT !.pc = "done", !.status = 400]
                   ELSE IF ~VerifyRefresh(token)
                     THEN [rec EXCEPT !.pc = "done", !.status = 401]
                   ELSE [rec EXCEPT !.pc = "tokenCheck"]]
  /\ UNCHANGED <<otherVars, users, refreshTokens, access, issued, clock>>

\* a token check that does not look at the table
StoredRowsOfAnyToken(token) ==
  {[token |-> token, user_id |-> token.uid,
    expires_at |-> token.iat + RefreshTtlDays]}

\* login.js:112-113  SELECT * FROM refresh_tokens WHERE token = $1 AND
\* user_id = $2 AND expires_at > NOW()
StoredRows(token) ==
  {t \in refreshTokens :
     t.token = token /\ t.user_id = token.uid /\ t.expires_at > clock}

\* login.js:112-117  the token check; every error of the handler is answered
\* with 401 (login.js:138-141)
RefreshTokenCheck(q, ok) ==
  /\ ureq[q].pc = "tokenCheck"
  /\ ureq' = IF ok /\ StoredRows(ureq[q].token) # {}
               THEN Goes(q, "userFetch") ELSE Ended(q, 401)
  /\ UNCHANGED <<otherVars, users, refreshTokens, access, issued, clock,
                 userOps>>

\* login.js:120-137  SELECT id, email, role FROM users WHERE id = $1, then the
\* new access token
RefreshUserFetch(q, ok) ==
  /\ ureq[q].pc = "userFetch"
  /\ IF ~ok \/ \A u \in users : u.id # ureq[q].token.uid
       THEN /\ ureq' = Ended(q, 401)
            /\ UNCHANGED access
       ELSE \E u \in users :
              /\ u.id = ureq[q].token.uid
              /\ access' = access \cup
                   {[id |-> u.id, role |-> u.role, iat |-> clock]}
              /\ ureq' = [ureq EXCEPT ![q] = [@ EXCEPT !.user = u,
                                                       !.pc = "done",
                                                       !.status = 200]]
  /\ UNCHANGED <<otherVars, users, refreshTokens, issued, clock, userOps>>

\* a day passes
Tick ==
  /\ clock < MaxClock
  /\ clock' = clock + 1
  /\ UNCHANGED <<otherVars, users, refreshTokens, access, issued, ureq,
                 userOps>>

\* ----------------------------------------------------------- specifications

\* task creation alone: every request body, every statement may be rejected
Next == \E r \in 1..MaxReqs : CreateTask(r)

Spec == Init /\ [][Next]_vars

\* a task creation in which every statement succeeds: the producer of the
\* ledger's rows in LedgerSpec
CreateTaskOk(r) ==
  \/ Receive(r, "X1", "Bolt", "Line3", {})
  \/ Validate(r)
  \/ Connect(r, TRUE)
  \/ Begin(r, TRUE)
  \/ SelectPart(r, TRUE)
  \/ InsertTask(r, TRUE)
  \/ InsertNotif(r, TRUE, TRUE)
  \/ Commit(r, TRUE)
  \/ Respond(r)

\* the ledger requests, interleaved with successful task creations
LedgerNext ==
  \/ \E r \in 1..MaxLedgerReqs : CreateTaskOk(r)
  \/ \E role \in Requesters, ok \in BOOLEAN : ListForRole(role, ok)
  \/ \E role \in Requesters, ok \in BOOLEAN, id \in 1..notifSeq :
        MarkRead(id, role, ok)
  \/ \E role \in Requesters, ok \in BOOLEAN : ClearForRole(role, ok)

LedgerSpec == Init /\ [][LedgerNext]_vars

\* the realtime connections and the ledger's list and clear requests of the
\* target roles, interleaved with successful task creations
RealtimeNext ==
  \/ \E r \in 1..MaxRtReqs : CreateTaskOk(r)
  \/ \E s \in Socks, token \in Tokens : SocketConnect(s, token)
  \/ \E s \in Socks : SocketDisconnect(s)
  \/ /\ ledgerOps < MaxRtOps
     /\ \E role \in TargetRoles, ok \in BOOLEAN : ListForRole(role, ok)
  \/ /\ ledgerOps < MaxRtOps
     /\ \E role \in TargetRoles, ok \in BOOLEAN : ClearForRole(role, ok)

RealtimeSpec == Init /\ [][RealtimeNext]_vars

\* the part requests of PartsSpec: an authorised requester, bodies with and
\* without the required fields, codes that exist and codes that do not
PartCreates == {<<pn, sap>> : pn \in {"Nut", ""}, sap \in {"X1", "X2", ""}}
PartUpdates == {<<id, sap>> : id \in {1, 2}, sap \in {"X1", "X2", ""}}

\* concurrent part creations and part updates; every query may be rejected
PartsNext ==
  \/ \E q \in PartReqs, b \in PartCreates :
        PartReceive(q, "create", [kind |-> "valid", role |-> "HOD"], 0,
                    b[1], "Zed", b[2])
  \/ \E q \in PartReqs, b \in PartUpdates :
        PartReceive(q, "update", [kind |-> "valid", role |-> "HOD"], b[1],
                    "", "", b[2])
  \/ \E q \in PartReqs, ok \in BOOLEAN : PartSapCheck(q, ok)
  \/ \E q \in PartReqs, ok \in BOOLEAN : PartInsert(q, ok)
  \/ \E q \in PartReqs, ok \in BOOLEAN : PartCheck(q, ok)
  \/ \E q \in PartReqs, ok \in BOOLEAN : PartSapCheckOther(q, ok)
  \/ \E q \in PartReqs, ok \in BOOLEAN : PartUpdate(q, ok)

PartsSpec == Init /\ [][PartsNext]_vars

\* pool.connect() resolves only while the pool has a client to give
PoolHasClient == Cardinality({r \in Reqs : conn[r] = "held"}) < PoolSize

\* task creations for the same part running concurrently; a notification
\* insert or the COMMIT of each may be rejected, the ROLLBACK then succeeds
ConcurrentNext ==
  \E r \in 1..MaxConcReqs :
    \/ Receive(r, "X1", "Bolt", "Line3", {})
    \/ Validate(r)
    \/ PoolHasClient /\ Connect(r, TRUE)
    \/ Begin(r, TRUE)
    \/ SelectPart(r, TRUE)
    \/ InsertTask(r, TRUE)
    \/ \E ok \in BOOLEAN : InsertNotif(r, ok, TRUE)
    \/ \E ok \in BOOLEAN : Commit(r, ok)
    \/ Respond(r)
    \/ Rollback(r, TRUE)

ConcurrentSpec == Init /\ [][ConcurrentNext]_vars

\* the part requests of CatalogSpec: a creation, updates and deletes of the
\* part that the task creations use, a delete of a part that may not exist
CatalogCreates == {<<"Nut", "Zed", "X2">>}
CatalogUpdates == {<<1, "Nut", "Zed", "X2">>, <<1, "Nut", "", "">>}
CatalogDeletes == {1, 2}

\* task creations interleaved with part requests of every kind of requester;
\* the statements of the store succeed unless the foreign key rejects them
CatalogNext ==
  \/ \E r \in 1..MaxCatReqs :
        \/ Receive(r, "X1", "Bolt", "Line3", {})
        \/ Validate(r)
        \/ Connect(r, TRUE)
        \/ Begin(r, TRUE)
        \/ SelectPart(r, TRUE)
        \/ InsertTask(r, TRUE)
        \/ InsertNotif(r, TRUE, TRUE)
        \/ Commit(r, TRUE)
        \/ Respond(r)
        \/ Rollback(r, TRUE)
  \/ \E q \in 1..MaxCatPartReqs :
        \/ \E token \in Tokens, b \in CatalogCreates :
              PartReceive(q, "create", token, 0, b[1], b[2], b[3])
        \/ \E token \in Tokens, b \in CatalogUpdates :
              PartReceive(q, "update", token, b[1], b[2], b[3], b[4])
        \/ \E token \in Tokens, id \in CatalogDeletes :
              PartReceive(q, "delete", token, id, "", "", "")
        \/ PartSapCheck(q, TRUE)
        \/ PartInsert(q, TRUE)
        \/ PartCheck(q, TRUE)
        \/ PartSapCheckOther(q, TRUE)
        \/ PartUpdate(q, TRUE)
        \/ PartDelete(q, TRUE)

CatalogSpec == Init /\ [][CatalogNext]_vars

\* the bodies of the user updates of AccountsSpec:
\* <<email, role, name, phone_number>>
UserUpdates ==
  {<<"", "", "Zoe", "">>, <<"", "Admin", "", "">>, <<"", "Employee", "", "">>,
   <<"bad", "Admin", "", "">>, <<"", "Admin", "", "12">>,
   <<"a@x", "", "", "">>, <<"", "Bogus", "Zoe", "">>, <<"", "", "", "+901">>,
   <<"", "", "", "">>}

\* user updates by the clients that hold a token, and by clients without
\* one; the statements of the store succeed
AccountsNext ==
  \E q \in 1..MaxAcctReqs :
    \/ /\ userOps < MaxAcctOps
       /\ \E actor \in access \cup {NoAccess}, id \in {1, 2},
             b \in UserUpdates :
            UpdateReceive(q, actor, id, b[1], b[2], b[3], b[4])
    \/ UpdateUserCheck(q, TRUE)
    \/ UpdateEmailCheck(q, TRUE)
    \/ UpdateUser(q, TRUE)

AccountsSpec == Init /\ [][AccountsNext]_vars

\* the bodies of the logins of SessionsSpec: <<email, password>>
UserLogins == {<<"b@x", "pw">>, <<"b@x", "no">>, <<"", "pw">>}

\* logins, refreshes and deletions of user 2 as days pass; a statement of the
\* refresh handler may fail, and so may the two statements that a constraint
\* between refresh_tokens and users would reject
SessionsNext ==
  \/ \E q \in 1..MaxUserSlots :
       \/ /\ userOps < MaxUserOps
          /\ \/ \E actor \in access \cup {NoAccess} :
                  DeleteReceive(q, actor, 2)
             \/ \E b \in UserLogins : LoginReceive(q, b[1], b[2])
             \/ \E token \in issued \cup {NoRefresh, ForgedRefresh} :
                  RefreshReceive(q, token)
       \/ DeleteUserCheck(q, TRUE)
       \/ DeleteTokens(q, TRUE)
       \/ \E ok \in BOOLEAN : DeleteUser(q, ok)
       \/ LoginSelect(q, TRUE)
       \/ LoginCompare(q)
       \/ \E ok \in BOOLEAN : LoginInsert(q, ok)
       \/ \E ok \in BOOLEAN : RefreshTokenCheck(q, ok)
       \/ \E ok \in BOOLEAN : RefreshUserFetch(q, ok)
  \/ Tick

SessionsSpec == Init /\ [][SessionsNext]_vars

\* ------------------------------------------------------------------ claims

\* the rows of the ledger `store` that carry task id t
RowsOfTask(store, t) == {n \in store : n.task_id = t}

\* `store` holds for task t one unread row for each of HOD, PDC and Employee,
\* and no other row
OneUnreadRowPerRole(store, t) ==
  /\ Cardinality(RowsOfTask(store, t)) = 3
  /\ \A role \in {"HOD", "PDC", "Employee"} :
       Cardinality({n \in RowsOfTask(store, t) :
                      n.recipient_role = role /\ ~n.read}) = 1

\* C1: the commit of a task creation persists exactly three notification rows
\* for the created task, one per role of {HOD, PDC, Employee}, each with
\* read = false and task_id equal to the id of the created task.
C1_OneNotificationPerRole ==
  [][\A r \in Reqs :
       (pc[r] = "commit" /\ pc'[r] = "respond") =>
          /\ task[r] # 0
          /\ RowsOfTask(notifications, task[r]) = {}
          /\ OneUnreadRowPerRole(notifications', task[r])]_vars

\* a creation was answered with 201 and its three rows are in the ledger
C1_Witness ==
  \E r \in Reqs :
    /\ status[r] = 201
    /\ OneUnreadRowPerRole(notifications, task[r])
    /\ \E t \in tasks : t.id = task[r]

\* C2: a task creation that failed after its task row was inserted (at a
\* notification insert or at commit) leaves, once the handler has finished,
\* neither its task row nor any of its notification rows in the store.
C2_FailedCreationLeavesNoRows ==
  \A r \in Reqs :
    (pc[r] = "done" /\ task[r] # 0 /\ err[r] # "none") =>
       /\ ~\E t \in tasks : t.id = task[r]
       /\ RowsOfTask(notifications, task[r]) = {}

\* a creation failed at a notification insert after an earlier notification
\* insert had succeeded, and was answered with 500
C2_Witness ==
  \E r \in Reqs :
    /\ pc[r] = "done"
    /\ err[r] = "storage"
    /\ task[r] # 0
    /\ idx[r] >= 2
    /\ status[r] = 500
    /\ Len(channel["HOD"]) > 0

\* C3: every realtime event emitted for a task is emitted after the
\* transaction that inserted the task has committed (the task row is
\* visible in the store whenever an event for it is in a channel).
C3_EmitOnlyAfterCommit ==
  \A role \in TargetRoles :
    \A i \in 1..Len(channel[role]) :
      \E t \in tasks : t.id = channel[role][i].task_id

\* C4: a failed realtime publish is not fatal: the request in which an emit
\* failed still ends with the 201 response and with its task row and its
\* notification rows persisted.
C4_PublishFailureIsNotFatal ==
  \A r \in Reqs :
    (pc[r] = "done" /\ err[r] = "emit") =>
       /\ status[r] = 201
       /\ \E t \in tasks : t.id = task[r]
       /\ OneUnreadRowPerRole(notifications, task[r])

\* C5: a creation whose part code resolves to no part creates no task row and
\* no notification row, publishes no event, and has every uploaded image
\* deleted when the handler has finished.
C5_UnknownPartLeavesNothing ==
  \A r \in Reqs :
    (pc[r] = "done" /\ err[r] = "notfound") =>
       /\ task[r] = 0
       /\ txn[r].tasks = {} /\ txn[r].notifs = {}
       /\ \A role \in TargetRoles : \A i \in 1..Len(channel[role]) :
            channel[role][i].task_id # task[r]
       /\ input[r].files \cap disk = {}

VisibleRows(store, role) ==
  {n \in store : n.recipient_role = role \/ n.recipient_role = "all"}

\* C7: markRead(id, role) on a notification addressed to another role (and
\* not to "all") never succeeds, reports 404 whenever the statement ran, and
\* leaves every notification, its read flag included, unchanged.
C7_MarkReadOtherRoleIsNotFound ==
  [][(/\ ledgerOps' # ledgerOps
      /\ resp'.op = "markRead"
      /\ \E n \in notifications :
           n.id = resp'.id /\ n.recipient_role \notin {resp'.role, "all"}) =>
        /\ resp'.status \in {404, 500}
        /\ resp'.status = 500 => MarkRead(resp'.id, resp'.role, FALSE)
        /\ notifications' = notifications]_vars

\* the last ledger request was a markRead by a role other than the
\* recipient of an existing unread row, and it was answered with 404
C7_Witness ==
  /\ resp.op = "markRead"
  /\ resp.status = 404
  /\ \E n \in notifications :
       /\ n.id = resp.id
       /\ n.recipient_role \notin {resp.role, "all"}
       /\ ~n.read

\* C8: listForRole(role) returns exactly the rows whose recipientRole is the
\* requester's role or "all", each once, by creation time descending.
C8_ListIsVisibleRowsNewestFirst ==
  [][(ledgerOps' # ledgerOps /\ resp'.op = "list" /\ resp'.status = 200) =>
        /\ {resp'.rows[i] : i \in 1..Len(resp'.rows)}
             = VisibleRows(notifications, resp'.role)
        /\ Len(resp'.rows) = Cardinality(VisibleRows(notifications, resp'.role))
        /\ \A i \in 1..Len(resp'.rows) : \A j \in 1..Len(resp'.rows) :
             i < j => resp'.rows[i].created_at >= resp'.rows[j].created_at]_vars

\* the last ledger request was a list that returned a row of the requester's
\* role before the older 'all' row, while a row of another role is stored
C8_Witness ==
  /\ resp.op = "list"
  /\ resp.status = 200
  /\ Len(resp.rows) = 2
  /\ resp.rows[1].recipient_role = resp.role
  /\ resp.rows[2].recipient_role = "all"
  /\ resp.rows[1].created_at > resp.rows[2].created_at
  /\ \E n \in notifications : n.recipient_role \notin {resp.role, "all"}

\* C9: for every role and every stored notification, the row is returned by
\* listForRole(role) iff markRead on it by that role succeeds iff
\* clearForRole(role) deletes it, and that is the case exactly when its
\* recipientRole is the role or "all".
C9_SameVisibilityForListMarkClear ==
  ledgerOps < MaxLedgerOps =>
    \A role \in Roles : \A n \in notifications :
      LET visible == n.recipient_role = role \/ n.recipient_role = "all"
          listed == ENABLED (ListForRole(role, TRUE)
                               /\ \E i \in 1..Len(resp'.rows) : resp'.rows[i] = n)
          marked == ENABLED (MarkRead(n.id, role, TRUE) /\ resp'.status = 200)
          cleared == ENABLED (ClearForRole(role, TRUE) /\ n \notin notifications')
      IN /\ listed <=> visible
         /\ marked <=> visible
         /\ cleared <=> visible

\* the ledger holds the 'all' row and rows of the fan-out, so that some role
\* sees two rows and not the third, and a ledger request can be served
C9_Witness ==
  /\ ledgerOps < MaxLedgerOps
  /\ \E n \in notifications : n.recipient_role = "all"
  /\ \E n \in notifications : n.recipient_role = "HOD"
  /\ \E n \in notifications : n.recipient_role = "PDC"

\* C10: clearForRole(role) deletes every row whose recipientRole is the role
\* or "all", so that a list by that role right afterwards is empty, and
\* leaves every row addressed to another role as it was.
C10_ClearDeletesVisibleRowsOnly ==
  [][(ledgerOps' # ledgerOps /\ resp'.op = "clear" /\ resp'.status = 200) =>
        /\ VisibleRows(notifications', resp'.role) = {}
        /\ SelectFrom(notifications', resp'.role) = {<<>>}
        /\ \A n \in notifications :
             n.recipient_role \notin {resp'.role, "all"} => n \in notifications'
        /\ notifications' \subseteq notifications]_vars

\* the last ledger request was a clear: the 'all' row is gone, the requester
\* sees nothing, and the rows of the other roles are still stored
C10_Witness ==
  /\ resp.op = "clear"
  /\ resp.status = 200
  /\ SeedNotification \notin notifications
  /\ VisibleRows(notifications, resp.role) = {}
  /\ \E n \in notifications : n.recipient_role = "PDC"
  /\ resp.role \in TargetRoles

C12_UnknownPartIsDistinguishable ==
  \A r \in Reqs :
    (pc[r] = "done" /\ err[r] = "notfound" /\ status[r] # 0) => status[r] # 500

\* C13: a request whose partCode and location are present and whose partCode
\* resolves to a part is answered with success unless a statement of the
\* store was rejected, whatever its other fields are.
C13_OnlyPartCodeAndLocationRequired ==
  \A r \in Reqs :
    (/\ pc[r] = "done"
     /\ input[r].sapCode # "" /\ input[r].location # ""
     /\ \E p \in parts : p.sap_code = input[r].sapCode
     /\ err[r] # "storage"
     /\ status[r] # 0) => status[r] = 201

\* C14: a request with a missing required field is answered with 400 before
\* anything else happened: no client was taken from the pool, no transaction
\* begun, no task or notification row staged or stored, no event emitted.
C14_ValidationBeforeAnyMutation ==
  \A r \in Reqs :
    (/\ pc[r] \notin {"idle", "validate"}
     /\ (input[r].partName = "" \/ input[r].sapCode = "" \/ input[r].location = ""))
      => /\ pc[r] = "done"
         /\ status[r] = 400
         /\ conn[r] = "none"
         /\ txn[r] = NoTxn
         /\ task[r] = 0 /\ part[r] = NoPart /\ err[r] = "none"
         /\ \A t \in tasks : t.image_urls \cap input[r].files = {}

\* a request that names an existing part and carries an image, but no
\* location, was answered with 400
C14_Witness ==
  \E r \in Reqs :
    /\ status[r] = 400
    /\ input[r].sapCode = "X1" /\ input[r].partName = "Bolt"
    /\ input[r].location = ""
    /\ input[r].files # {}

\* C15: when the task insert, a notification insert or the commit fails,
\* every uploaded image of the request is deleted once the handler has
\* finished; when the creation succeeds no image is deleted and the task row
\* references all of them.
C15_ArtifactsFollowTheOutcome ==
  \A r \in Reqs :
    /\ (pc[r] = "done" /\ err[r] = "storage" /\ part[r] # NoPart) =>
          input[r].files \cap disk = {}
    /\ status[r] = 201 =>
          /\ input[r].files \subseteq disk
          /\ \E t \in tasks : t.id = task[r] /\ t.image_urls = input[r].files

\* C16: the client taken from the pool by the creation handler is released
\* exactly once on every exit path: it is never released twice, it is held
\* only while the handler runs, a finished handler that took one (success,
\* part not found, storage failure, rejected ROLLBACK) has released it, and
\* the validation-failure path never took one.
C16_ConnectionReleasedExactlyOnce ==
  \A r \in Reqs :
    /\ conn[r] \in {"none", "held", "released"}
    /\ conn[r] = "held" => pc[r] \notin {"idle", "validate", "connect", "done"}
    /\ pc[r] \notin {"idle", "validate", "connect", "done"} => conn[r] = "held"
    /\ (pc[r] = "done" /\ (status[r] \in {201, 500} \/ err[r] # "none")) =>
          conn[r] = "released"
    /\ status[r] = 400 => conn[r] = "none"

\* a handler whose insert failed and whose ROLLBACK was rejected has ended
\* without a response and with its client released
C16_Witness ==
  \E r \in Reqs :
    /\ pc[r] = "done" /\ err[r] = "storage" /\ status[r] = 0
    /\ part[r] # NoPart
    /\ conn[r] = "released"

\* the sockets `sk`: a connected one authenticated with a valid token and is
\* in the room of that token's role and in no other; one whose token is
\* absent or invalid is not connected and is in no room
SessionsInTheirRoleChannel(sk) ==
  \A s \in Socks :
    /\ sk[s].state = "connected" =>
          /\ sk[s].token.kind = "valid"
          /\ sk[s].rooms = {sk[s].token.role}
    /\ sk[s].token.kind # "valid" =>
          /\ sk[s].state # "connected"
          /\ sk[s].rooms = {}

\* C17: every connected session is in exactly one role channel, that of the
\* role in the token it authenticated with; a connection without a token or
\* with an invalid one joins no channel; the channel of a session does not
\* change while it stays connected.
C17_OneRoleChannelPerSession ==
  [][/\ SessionsInTheirRoleChannel(sock)
     /\ SessionsInTheirRoleChannel(sock')
     /\ \A s \in Socks :
          (sock[s].state = "connected" /\ sock'[s].state = "connected") =>
             /\ sock'[s].rooms = sock[s].rooms
             /\ sock'[s].token = sock[s].token]_vars

\* a session authenticated as PDC is in the PDC channel alone and has stayed
\* in it while an event was published to it
C17_Witness ==
  \E s \in Socks :
    /\ sock[s].state = "connected"
    /\ sock[s].token = [kind |-> "valid", role |-> "PDC"]
    /\ sock[s].rooms = {"PDC"}
    /\ Len(sock[s].received) = 1

\* the number of events of the sequence `evs` that are about task t
EventsOfTask(evs, t) == Cardinality({i \in DOMAIN evs : evs[i].task_id = t})

\* C18: a successful creation has published one event for its task on the
\* channel of each of HOD, PDC and Employee, three in all; each publication
\* goes to one role's channel and reaches exactly the sessions that are in
\* that channel; a session has at most one event of the task, and none if
\* its role is not a target role.
C18_OneEventPerTargetRole ==
  [][/\ \A r \in Reqs :
          status'[r] = 201 =>
             /\ \A role \in TargetRoles :
                  EventsOfTask(channel'[role], task'[r]) = 1
             /\ \A s \in Socks :
                  /\ EventsOfTask(sock'[s].received, task'[r]) <= 1
                  /\ sock'[s].user \notin TargetRoles =>
                        EventsOfTask(sock'[s].received, task'[r]) = 0
     /\ channel' # channel =>
          \E role \in TargetRoles :
            /\ Len(channel'[role]) = Len(channel[role]) + 1
            /\ \A other \in TargetRoles \ {role} :
                 channel'[other] = channel[other]
            /\ LET ev == channel'[role][Len(channel'[role])]
               IN /\ ev.recipient_role = role
                  /\ \A s \in Socks :
                       sock'[s] =
                          IF sock[s].state = "connected" /\ sock[s].rooms = {role}
                            THEN [sock[s] EXCEPT !.received = Append(@, ev)]
                            ELSE sock[s]]_vars

\* a creation was answered with 201 and a session of role Employee that was
\* connected at the time holds the one event of the task
C18_Witness ==
  \E r \in Reqs, s \in Socks :
    /\ status[r] = 201
    /\ sock[s].state = "connected"
    /\ sock[s].user = "Employee"
    /\ Len(sock[s].received) = 1
    /\ sock[s].received[1].task_id = task[r]
    /\ \A role \in TargetRoles : EventsOfTask(channel[role], task[r]) = 1

\* C19: a session receives an event only in the step that publishes it and
\* only if it is connected at that step, so one that connects later or was
\* disconnected never receives it; the notification row of a committed task
\* for a target role R stays in the ledger until a clear by R, and every
\* successful list by R returns it.
C19_LedgerIsTheCatchUp ==
  [][/\ \A s \in Socks :
          \/ sock'[s].received = sock[s].received
          \/ /\ sock[s].state = "connected"
             /\ sock'[s].state = "connected"
             /\ \E role \in sock[s].rooms :
                  /\ Len(channel'[role]) = Len(channel[role]) + 1
                  /\ sock'[s].received =
                        Append(sock[s].received,
                               channel'[role][Len(channel'[role])])
     /\ \A r \in Reqs, role \in TargetRoles :
          /\ (txn[r].state # "committed" /\ txn'[r].state = "committed") =>
                \E n \in notifications' :
                  n.task_id = task[r] /\ n.recipient_role = role
          /\ (/\ txn[r].state = "committed"
              /\ \E n \in notifications :
                   n.task_id = task[r] /\ n.recipient_role = role
              /\ ~(/\ ledgerOps' # ledgerOps
                   /\ resp'.op = "clear" /\ resp'.role = role)) =>
                \E n \in notifications' :
                  n.task_id = task[r] /\ n.recipient_role = role
          /\ (/\ ledgerOps' # ledgerOps
              /\ resp'.op = "list" /\ resp'.status = 200 /\ resp'.role = role
              /\ txn[r].state = "committed") =>
                \A n \in notifications :
                  (n.task_id = task[r] /\ n.recipient_role = role) =>
                     \E i \in DOMAIN resp'.rows : resp'.rows[i] = n]_vars

\* a session of role HOD connected after the events of a committed task were
\* published: it has received nothing, and a list by HOD returned the task's
\* notification
C19_Witness ==
  \E r \in Reqs, s \in Socks :
    /\ status[r] = 201
    /\ Len(channel["HOD"]) = 1
    /\ sock[s].state = "connected" /\ sock[s].user = "HOD"
    /\ sock[s].received = <<>>
    /\ resp.op = "list" /\ resp.status = 200 /\ resp.role = "HOD"
    /\ \E i \in DOMAIN resp.rows : resp.rows[i].task_id = task[r]

\* C20: in every reachable state no two parts have the same sap_code, under
\* every interleaving of part creations and part updates.
C20_SapCodeUnique ==
  \A p1, p2 \in parts : p1.sap_code = p2.sap_code => p1.id = p2.id

\* C22: a client is returned to the pool only after the transaction begun on
\* it was ended by a COMMIT or a ROLLBACK that succeeded: no released client
\* carries a transaction that is still open or aborted.
C22_TransactionEndedBeforeRelease ==
  \A r \in Reqs :
    conn[r] = "released" => txn[r].state \in {"none", "committed", "rolledback"}

\* C23: once all concurrent creations have finished, every request answered
\* with 201 has exactly its three notification rows, carrying its own task
\* id, every other request has none, no two requests share a task id, and the
\* rows added to the ledger number three times the successful requests.
C23_ConcurrentCreationsKeepTheirRows ==
  (\A r \in 1..MaxConcReqs : pc[r] = "done") =>
     /\ \A r \in 1..MaxConcReqs :
          /\ task[r] # 0
          /\ status[r] = 201 => OneUnreadRowPerRole(notifications, task[r])
          /\ status[r] # 201 => RowsOfTask(notifications, task[r]) = {}
          /\ \A o \in 1..MaxConcReqs : task[o] = task[r] => o = r
     /\ Cardinality(notifications \ {SeedNotification}) =
           3 * Cardinality({r \in 1..MaxConcReqs : status[r] = 201})

\* two creations ran concurrently, one answered with 201 and one with 500:
\* the failed one inserted a notification between two inserts of the other,
\* as the gap in the ids of the successful one's rows shows
C23_Witness ==
  /\ \A r \in 1..MaxConcReqs : pc[r] = "done"
  /\ \E r, o \in 1..MaxConcReqs :
       /\ status[r] = 201 /\ status[o] = 500
       /\ \E n, m \in RowsOfTask(notifications, task[r]) :
            \E k \in (n.id + 1)..(m.id - 1) :
              \A x \in notifications : x.id # k

\* C24: a notification row that stays in the ledger keeps every field but
\* read, and read goes only from false to true; a markRead by a requester on
\* a row it can see that is already read succeeds (whenever the statement
\* ran) and leaves the ledger as it was.
C24_OnlyReadChangesAndOnlyToTrue ==
  [][/\ \A n \in notifications : \A m \in notifications' :
          m.id = n.id => \/ m = n
                         \/ ~n.read /\ m = [n EXCEPT !.read = TRUE]
     /\ (/\ ledgerOps' # ledgerOps
         /\ resp'.op = "markRead" /\ resp'.status # 500
         /\ \E n \in VisibleRows(notifications, resp'.role) :
              n.id = resp'.id /\ n.read) =>
           /\ resp'.status = 200
           /\ notifications' = notifications]_vars

\* two ledger requests were made, the last a successful markRead; the row it
\* names is read and every other row is as it was created
C24_Witness ==
  /\ ledgerOps = 2
  /\ resp.op = "markRead" /\ resp.status = 200
  /\ \E n \in notifications :
       /\ n.id = resp.id /\ n.read /\ n.task_id # 0
       /\ \A m \in notifications \ {n} : ~m.read
  /\ Cardinality(notifications) = 4

\* C26: the id carried by an event published for a task on a role's channel
\* is the id of the notification row stored for that task and role, so that
\* a markRead with the event's id reaches that row and no other.
C26_EventIdIsNotificationId ==
  \A role \in TargetRoles : \A i \in DOMAIN channel[role] :
    \A n \in notifications :
      (n.task_id = channel[role][i].task_id /\ n.recipient_role = role) =>
         n.id = channel[role][i].id

\* C27: a task-creation handler that has finished has sent a response,
\* whichever statement failed on its way.
C27_FinishedHandlerHasResponded ==
  \A r \in Reqs : pc[r] = "done" => status[r] \in {201, 400, 500}

\* every task row of `ts` references a part row of `ps`
TasksReferenceParts(ts, ps) == \A t \in ts : \E p \in ps : p.id = t.part_id

C25_NotificationKeepsPartSnapshot ==
  [][/\ \A n \in notifications : \A m \in notifications' :
          m.id = n.id => /\ m.part_name = n.part_name
                         /\ m.company_name = n.company_name
                         /\ m.sap_code = n.sap_code
     /\ parts' # parts => notifications' = notifications]_vars

\* the part of a task was renamed and recoded after the task's creation; the
\* task's notifications still carry the name, company and code of that time
C25_Witness ==
  \E t \in tasks : \E p \in parts :
    /\ p.id = t.part_id
    /\ p.part_name = "Nut" /\ p.company_name = "Zed" /\ p.sap_code = "X2"
    /\ RowsOfTask(notifications, t.id) # {}
    /\ \A n \in RowsOfTask(notifications, t.id) :
         n.part_name = "Bolt" /\ n.company_name = "Acme" /\ n.sap_code = "X1"

\* C28: a part request without a valid token is answered with 401, one whose
\* role is not in the route's list (Admin and HOD for creation and update,
\* Admin for deletion) with 403; the handler runs only for the other
\* requests, and only a step of such a request changes the parts.
C28_PartRoutesFollowAllowList ==
  [][/\ \A q \in PartReqs :
          LET listed == IF preq'[q].op = "delete" THEN {"Admin"}
                                                  ELSE {"Admin", "HOD"}
          IN /\ (preq[q].pc = "idle" /\ preq'[q].pc # "idle") =>
                   /\ preq'[q].role = "" =>
                        preq'[q].pc = "done" /\ preq'[q].status = 401
                   /\ (preq'[q].role # "" /\ preq'[q].role \notin listed) =>
                        preq'[q].pc = "done" /\ preq'[q].status = 403
                   /\ preq'[q].status \in {401, 403} => parts' = parts
             /\ preq'[q].pc \notin {"idle", "done"} => preq'[q].role \in listed
             /\ preq'[q].status \in {200, 201} => preq'[q].role \in listed
     /\ parts' # parts =>
          \E q \in PartReqs :
            /\ preq'[q] # preq[q]
            /\ preq[q].role \in (IF preq[q].op = "delete" THEN {"Admin"}
                                                          ELSE {"Admin", "HOD"})]_vars

\* a delete by an HOD was answered with 403, and the part is still there
C28_Witness ==
  \E q \in PartReqs :
    /\ preq[q].op = "delete" /\ preq[q].role = "HOD" /\ preq[q].id = 1
    /\ preq[q].pc = "done" /\ preq[q].status = 403
    /\ \E p \in parts : p.id = 1

\* the update request in slot q is one the rule does not allow: its requester
\* does not hold the role Admin and it names a role or another user's record
NotPermitted(q) ==
  /\ ureq[q].op = "update"
  /\ ureq[q].actor.role # "Admin"
  /\ (ureq[q].role # "" \/ ureq[q].id # ureq[q].actor.id)

\* the update request in slot q carries a malformed email, phone number or role
Malformed(q) ==
  \/ ureq[q].email \notin {"", "a@x", "b@x", "c@x"}
  \/ ureq[q].phone \notin {"", "+900", "+901"}
  \/ ureq[q].role \notin Roles \cup {""}

\* the update request in slot q came without a token that is still valid
Unauthenticated(q) == ureq[q].actor = NoAccess \/ ureq[q].actor.iat < clock

\* a step changes a user record only as the update of an Admin or of the
\* user themselves, and changes a role only as the update of an Admin
ChangesArePermitted ==
  \A u \in users : \A v \in users' :
    (v.id = u.id /\ v # u) =>
      \E q \in UserSlots :
        /\ ureq[q].pc = "update" /\ ureq'[q].status = 200
        /\ ureq[q].id = u.id
        /\ ureq[q].actor.role = "Admin" \/ ureq[q].actor.id = u.id
        /\ v.role # u.role => ureq[q].actor.role = "Admin"

RefreshAnswered(q) ==
  /\ ureq[q].op = "refresh"
  /\ ureq[q].pc \in {"tokenCheck", "userFetch"}
  /\ ureq'[q].pc = "done"

\* C30: a refresh-token request yields a new access token only if the
\* presented token is stored for that user, unexpired, and the user still
\* exists; once the user is deleted, every refresh token issued to that user
\* is answered 401, whatever logins, refreshes and deletions came before.
C30_RefreshNeedsStoredTokenAndUser ==
  [][\A q \in UserSlots :
       /\ ureq'[q].pc = "userFetch" /\ ureq[q].pc # "userFetch" =>
            /\ ureq[q].pc = "tokenCheck"
            /\ \E t \in refreshTokens :
                 /\ t.token = ureq[q].token
                 /\ t.user_id = ureq[q].token.uid
                 /\ t.expires_at > clock
       /\ RefreshAnswered(q) /\ ureq'[q].status = 200 =>
            /\ ureq[q].pc = "userFetch"
            /\ \E u \in users : u.id = ureq[q].token.uid
            /\ \E a \in access' : a.id = ureq[q].token.uid /\ a.iat = clock
       /\ RefreshAnswered(q) /\ (\A u \in users : u.id # ureq[q].token.uid) =>
            ureq'[q].status = 401 /\ access' = access
       /\ ureq'[q].op = "refresh" /\ ureq'[q].pc = "done" =>
            \/ ureq'[q].status \in {200, 401}
            \/ ureq'[q].status = 400 /\ ureq'[q].token = NoRefresh
       /\ access' # access =>
            \E p \in UserSlots :
              /\ ureq[p].pc \in {"userFetch", "loginInsert"}
              /\ ureq'[p].status = 200]_vars

\* user 2 logged in on a later day and was then deleted; the refresh token of
\* that login, still within its seven days, was answered 401
C30_Witness ==
  /\ \A u \in users : u.id # 2
  /\ \E q \in UserSlots :
       /\ ureq[q].op = "refresh" /\ ureq[q].pc = "done"
       /\ ureq[q].status = 401
       /\ ureq[q].token \in issued
       /\ ureq[q].token.uid = 2 /\ ureq[q].token.iat > 0
       /\ clock < ureq[q].token.iat + RefreshTtlDays

====
